---------------------------- MODULE Spec2Model ----------------------------
(***************************************************************************)
(* A model of the resume/JD scoring engine                                 *)
(* src/resume_matcher/scoring/ensemble_scoring.py.                         *)
(*                                                                         *)
(* Representation.                                                         *)
(*   - A Python str is a sequence of one-character strings, so that the    *)
(*     regular expressions of the source can be modelled position by       *)
(*     position.  None is the value None below, which is no text.          *)
(*   - A Python float is an exact rational <<n, d>> with d > 0 in lowest   *)
(*     terms (binary rounding error of the float arithmetic is not         *)
(*     modelled).  A value produced by round(x, 1) is kept as an integer   *)
(*     number of tenths: 333 stands for 33.3.                              *)
(*   - A cosine similarity is an integer s in -SimScale..SimScale standing *)
(*     for s / SimScale.                                                   *)
(***************************************************************************)
EXTENDS Integers, Sequences, FiniteSets, TLC

VARIABLES
    MODEL,      \* the module global _MODEL: 0 is None, n > 0 the n-th instance
    created,    \* number of SentenceTransformer instances constructed so far
    pc,         \* per thread: its position inside compute_score
    frame,      \* per thread: the locals of its compute_score call
    sim_score,  \* what the embedding model has answered so far: the top-k
                \* score of each pair of sentence lists it was given
    call,       \* a direct call of one pure function: its name and arguments
    ret         \* the outcome of that direct call

vars == <<MODEL, created, pc, frame, sim_score, call, ret>>

(***************************************************************************)
(* Bounds of the model.                                                    *)
(***************************************************************************)
NumThreads == 2     \* threads calling compute_score concurrently
MaxTextLen == 4     \* length of the exhaustively enumerated texts
MaxWords == 2       \* number of words of the enumerated resume / JD texts
MaxLines == 2       \* number of resume sentences given to evidence_score
SimScale == 1       \* similarities are the multiples of 1/SimScale in [-1, 1]
MaxJDSentences == 4 \* number of JD sentences given to embedding_similarity
MaxSimCells == 8    \* number of cells of an enumerated similarity matrix

(***************************************************************************)
(* Characters.                                                             *)
(***************************************************************************)
UPPER == <<"A","B","C","D","E","F","G","H","I","J","K","L","M",
           "N","O","P","Q","R","S","T","U","V","W","X","Y","Z">>
LOWER == <<"a","b","c","d","e","f","g","h","i","j","k","l","m",
           "n","o","p","q","r","s","t","u","v","w","x","y","z">>
DIGITS == <<"0","1","2","3","4","5","6","7","8","9">>

\* The characters the model uses, in code point order (Python compares str
\* values code point by code point).
CodePoints == <<"\t", "\n", " ", "!", "$", "%", ",", "-", ".">> \o DIGITS \o <<"?">>
              \o UPPER \o <<"_">> \o LOWER

Range(s) == {s[i] : i \in 1..Len(s)}

UpperChars == Range(UPPER)
LowerChars == Range(LOWER)
DigitChars == Range(DIGITS)

CodeOf == [c \in Range(CodePoints) |->
              CHOOSE i \in 1..Len(CodePoints) : CodePoints[i] = c]

Ord(c) == CodeOf[c]

\* str.lower() on one character
LowerOf == [c \in UpperChars |-> LOWER[CHOOSE i \in 1..26 : UPPER[i] = c]]

LowerChar(c) == IF c \in UpperChars THEN LowerOf[c] ELSE c

\* str.lower()
Lower(s) == [i \in 1..Len(s) |-> LowerChar(s[i])]

\* the regular expression classes \s, \w, \d and [\w\-]
SpaceChars == {" ", "\n", "\t"}
WordChars == UpperChars \cup LowerChars \cup DigitChars \cup {"_"}

IsSpace(c) == c \in SpaceChars
IsWord(c) == c \in WordChars
IsDigit(c) == c \in DigitChars
IsWordOrHyphen(c) == IsWord(c) \/ c = "-"

None == <<"None">>

\* str.strip()
Strip(s) ==
    LET keep == {i \in 1..Len(s) : ~IsSpace(s[i])}
    IN  IF keep = {} THEN <<>>
        ELSE SubSeq(s, CHOOSE i \in keep : \A j \in keep : i <= j,
                       CHOOSE i \in keep : \A j \in keep : i >= j)

\* a < b for two str values
RECURSIVE StrLess(_, _)
StrLess(a, b) ==
    IF b = <<>> THEN FALSE
    ELSE IF a = <<>> THEN TRUE
    ELSE IF a[1] # b[1] THEN Ord(a[1]) < Ord(b[1])
    ELSE StrLess(Tail(a), Tail(b))

\* sorted(S) for a set S of str values
RECURSIVE sorted(_)
sorted(S) ==
    IF S = {} THEN <<>>
    ELSE LET m == CHOOSE x \in S : \A y \in S \ {x} : StrLess(x, y)
         IN  <<m>> \o sorted(S \ {m})

(***************************************************************************)
(* clean_text and split_sentences.                                         *)
(***************************************************************************)
\* re.sub(r"\s+", " ", s): every maximal run of whitespace becomes one
\* space; what positions lo..hi of s become, one half after the other
RECURSIVE CollapseRange(_, _, _)
CollapseRange(s, lo, hi) ==
    IF lo > hi THEN <<>>
    ELSE IF lo = hi
         THEN (IF IsSpace(s[lo])
               THEN (IF lo > 1 /\ IsSpace(s[lo-1]) THEN <<>> ELSE <<" ">>)
               ELSE <<s[lo]>>)
         ELSE CollapseRange(s, lo, (lo + hi) \div 2)
              \o CollapseRange(s, (lo + hi) \div 2 + 1, hi)

CollapseFrom(s, i) == CollapseRange(s, i, Len(s))

clean_text(t) == Strip(CollapseFrom(IF t = None THEN <<>> ELSE t, 1))

IsSentenceEnd(c) == c \in {".", "!", "?"}

RECURSIVE SkipSpace(_, _)
SkipSpace(t, j) == IF j <= Len(t) /\ IsSpace(t[j]) THEN SkipSpace(t, j + 1) ELSE j

\* re.split(r"(?<=[\.\!\?])\s+", t): the piece that starts at i, scanned up
\* to j; it ends before the next whitespace that follows a sentence end
RECURSIVE SplitFrom(_, _, _)
SplitFrom(t, i, j) ==
    LET seps == {k \in j..Len(t) : IsSpace(t[k]) /\ k > 1 /\ IsSentenceEnd(t[k-1])}
    IN  IF seps = {} THEN <<SubSeq(t, i, Len(t))>>
        ELSE LET k == CHOOSE k \in seps : \A m \in seps : k <= m
             IN  <<SubSeq(t, i, k - 1)>>
                 \o SplitFrom(t, SkipSpace(t, k), SkipSpace(t, k))

RECURSIVE StripNonEmpty(_)
StripNonEmpty(pieces) ==
    IF pieces = <<>> THEN <<>>
    ELSE (IF Strip(Head(pieces)) = <<>> THEN <<>> ELSE <<Strip(Head(pieces))>>)
         \o StripNonEmpty(Tail(pieces))

split_sentences(t) == StripNonEmpty(SplitFrom(t, 1, 1))

(***************************************************************************)
(* extract_terms.                                                          *)
(***************************************************************************)
\* PatternCharMatches with a space of the term standing for any separator
PatternCharMatchesAnySeparator(p, c) ==
    IF p = " " THEN c \in {" ", "-", "."} ELSE c = p

\* One pattern character against one text character: re.escape makes every
\* character literal, and the replace turns an (escaped) space into [ \-].
PatternCharMatches(p, c) == IF p = " " THEN c \in {" ", "-"} ELSE c = p

\* The pattern  (?<![\w\-]) term_l (?![\w\-])  matches t with the term's
\* first character at position i.
MatchesAt(term_l, t, i) ==
    /\ i + Len(term_l) - 1 <= Len(t)
    /\ \A k \in 1..Len(term_l) : PatternCharMatches(term_l[k], t[i + k - 1])
    /\ (i > 1 => ~IsWordOrHyphen(t[i - 1]))
    /\ (i + Len(term_l) <= Len(t) => ~IsWordOrHyphen(t[i + Len(term_l)]))

\* re.search(pattern, t) for the pattern built from term
TermFound(term, t) ==
    LET term_l == Strip(Lower(term))
    IN  \E i \in 1..(Len(t) + 1) : MatchesAt(term_l, t, i)

\* the terms of vocab found in t, in the order of vocab
ExtractFrom(t, vocab) == SelectSeq(vocab, LAMBDA term : TermFound(term, t))

extract_terms(text, vocab) == ExtractFrom(Lower(text), vocab)

(***************************************************************************)
(* Floats as exact rationals.                                              *)
(***************************************************************************)
Abs(n) == IF n < 0 THEN -n ELSE n
Min(a, b) == IF a <= b THEN a ELSE b
Max(a, b) == IF a >= b THEN a ELSE b

RECURSIVE GCD(_, _)
GCD(a, b) == IF b = 0 THEN a ELSE GCD(b, a % b)

\* the rational n/d (d > 0) in lowest terms
Q(n, d) == LET g == GCD(Abs(n), d) IN <<n \div g, d \div g>>

QAdd(a, b) == Q(a[1] * b[2] + b[1] * a[2], a[2] * b[2])
QScale(k, a) == Q(k * a[1], a[2])
QLe(a, b) == a[1] * b[2] <= b[1] * a[2]
QLess(a, b) == a[1] * b[2] < b[1] * a[2]
QMin(a, b) == IF QLe(a, b) THEN a ELSE b

Zero == Q(0, 1)
One == Q(1, 1)

\* round(x, 1), as a number of tenths: the integer nearest to 10*x, the even
\* one of the two when 10*x lies exactly halfway
round1(x) ==
    LET n == 10 * x[1]
        d == x[2]
        up == (2 * n + d) \div (2 * d)
    IN  IF (2 * n + d) % (2 * d) = 0 /\ up % 2 # 0 THEN up - 1 ELSE up

(***************************************************************************)
(* The ontology resource and load_ontology.                                *)
(* A JSON value is a record: t its type, s the characters of a string,     *)
(* items the elements of an array or the values of an object, keys the     *)
(* keys of an object.  A resource is missing, not JSON, or holds a value.  *)
(***************************************************************************)
JStr(s) == [t |-> "str", s |-> s, keys |-> <<>>, items |-> <<>>]
JNum == [t |-> "num", s |-> <<>>, keys |-> <<>>, items |-> <<>>]
JArr(items) == [t |-> "arr", s |-> <<>>, keys |-> <<>>, items |-> items]
JObj(keys, items) == [t |-> "obj", s |-> <<>>, keys |-> keys, items |-> items]

MissingFile == [kind |-> "missing", value |-> JNum]
NotJson == [kind |-> "invalid", value |-> JNum]
JsonFile(v) == [kind |-> "json", value |-> v]

\* open() raises FileNotFoundError, json.load raises JSONDecodeError, and
\* otherwise whatever value the file holds is returned, unvalidated
load_ontology(path) ==
    IF path.kind = "missing" THEN [raised |-> "FileNotFoundError", value |-> JNum]
    ELSE IF path.kind = "invalid" THEN [raised |-> "JSONDecodeError", value |-> JNum]
    ELSE [raised |-> "", value |-> path.value]

(***************************************************************************)
(* skills_coverage.                                                        *)
(***************************************************************************)
\* "for s in bucket" succeeds for a list, a str (its characters) and a dict
\* (its keys); a number is not iterable
Iterable(bucket) == bucket.t \in {"arr", "str", "obj"}

\* the values s that "for s in bucket" yields, for the buckets whose every
\* yielded value is a str
IterTerms(bucket) ==
    IF bucket.t = "arr" THEN {bucket.items[i].s : i \in 1..Len(bucket.items)}
    ELSE IF bucket.t = "str" THEN {<<bucket.s[i]>> : i \in 1..Len(bucket.s)}
    ELSE Range(bucket.keys)

\* the exception that building skills_vocab and extracting with it raises:
\* .values() needs a dict, every bucket must be iterable, and every term
\* must be a str (sorted() of mixed types or term.lower() fails otherwise)
VocabRaises(ontology) ==
    IF ontology.t # "obj" THEN "AttributeError"
    ELSE IF \E i \in 1..Len(ontology.items) : ~Iterable(ontology.items[i])
         THEN "TypeError"
    ELSE IF \E i \in 1..Len(ontology.items) :
               /\ ontology.items[i].t = "arr"
               /\ \E k \in 1..Len(ontology.items[i].items) :
                      ontology.items[i].items[k].t # "str"
         THEN "TypeError"
    ELSE ""

\* sorted({s for bucket in ontology.values() for s in bucket})
skills_vocab(ontology) ==
    sorted(UNION {IterTerms(ontology.items[i]) : i \in 1..Len(ontology.items)})

\* coverage with the union of both term sets as the denominator
coverage_of_union(jd_skills, res_skills) ==
    Q(Cardinality(jd_skills \cap res_skills), Cardinality(jd_skills \cup res_skills))

\* coverage with the missing terms counted as the hits
coverage_of_missing(jd_skills, res_skills) ==
    Q(Cardinality(jd_skills \ res_skills), Cardinality(jd_skills))

\* the coverage ratio hit_weight / jd_weight
coverage(jd_skills, res_skills) ==
    Q(Cardinality(jd_skills \cap res_skills), Cardinality(jd_skills))

\* [(s, 1.0) for s in sorted(jd_skills - res_skills)]
missing_of(jd_skills, res_skills) ==
    LET m == sorted(jd_skills \ res_skills)
    IN  [i \in 1..Len(m) |-> <<m[i], One>>]

\* skills_coverage without the branch of lines 53-54
skills_coverage_no_fallback(resume_text, jd_text, ontology) ==
    IF VocabRaises(ontology) # ""
    THEN [raised |-> VocabRaises(ontology), score |-> Zero,
          aligned |-> <<>>, missing |-> <<>>]
    ELSE LET vocab == skills_vocab(ontology)
             jd_skills == Range(extract_terms(jd_text, vocab))
             res_skills == Range(extract_terms(resume_text, vocab))
         IN  [raised |-> "",
              score |-> Q(Cardinality(jd_skills \cap res_skills),
                          Max(1, Cardinality(jd_skills))),
              aligned |-> sorted(jd_skills \cap res_skills),
              missing |-> missing_of(jd_skills, res_skills)]

\* lines 49-60
skills_coverage(resume_text, jd_text, ontology) ==
    IF VocabRaises(ontology) # ""
    THEN [raised |-> VocabRaises(ontology), score |-> Zero,
          aligned |-> <<>>, missing |-> <<>>]
    ELSE LET vocab == skills_vocab(ontology)
             jd_skills == Range(extract_terms(jd_text, vocab))
             res_skills == Range(extract_terms(resume_text, vocab))
         IN  IF jd_skills = {}
             THEN [raised |-> "", score |-> Zero,
                   aligned |-> sorted(res_skills), missing |-> <<>>]
             ELSE [raised |-> "", score |-> coverage(jd_skills, res_skills),
                   aligned |-> sorted(jd_skills \cap res_skills),
                   missing |-> missing_of(jd_skills, res_skills)]

(***************************************************************************)
(* keyword_alignment.                                                      *)
(***************************************************************************)
DEFAULT_VERBS == <<
    <<"b","u","i","l","t">>, <<"d","e","s","i","g","n","e","d">>,
    <<"a","u","t","o","m","a","t","e","d">>, <<"o","p","t","i","m","i","z","e","d">>,
    <<"d","e","p","l","o","y","e","d">>, <<"a","n","a","l","y","z","e","d">>,
    <<"m","o","d","e","l","e","d">>, <<"v","i","s","u","a","l","i","z","e","d">>,
    <<"o","r","c","h","e","s","t","r","a","t","e","d">>, <<"l","e","d">>,
    <<"i","m","p","r","o","v","e","d">>, <<"r","e","d","u","c","e","d">>,
    <<"i","n","c","r","e","a","s","e","d">>,
    <<"s","t","r","e","a","m","l","i","n","e","d">>,
    <<"m","i","g","r","a","t","e","d">>, <<"i","n","t","e","g","r","a","t","e","d">>,
    <<"r","e","f","a","c","t","o","r","e","d">>, <<"m","o","n","i","t","o","r","e","d">>,
    <<"t","e","s","t","e","d">>, <<"v","a","l","i","d","a","t","e","d">>
>>

\* the argument verbs=None: a list that is no list of terms
NoVerbs == <<None>>

\* verbs or DEFAULT_VERBS: None and the empty list are both falsy
verbs_or_default(verbs) ==
    IF verbs = NoVerbs \/ verbs = <<>> THEN DEFAULT_VERBS ELSE verbs

keyword_alignment(resume_text, jd_text, verbs) ==
    LET r == Range(extract_terms(resume_text, verbs_or_default(verbs)))
        j == Range(extract_terms(jd_text, verbs_or_default(verbs)))
    IN  IF j = {} THEN Zero ELSE Q(Cardinality(r \cap j), Cardinality(j))

(***************************************************************************)
(* evidence_score and _METRIC_RE.                                          *)
(***************************************************************************)
AllDigits(t, i, j) == i <= j /\ \A k \in i..j : IsDigit(t[k])

HasAt(t, i, c) == i <= Len(t) /\ t[i] = c

\* the literal word w occurs in t from position i on
WordAt(t, i, w) ==
    /\ i + Len(w) - 1 <= Len(t)
    /\ \A k \in 1..Len(w) : t[i + k - 1] = w[k]

\* \d+(\.\d+)?%
PercentAlt(t) ==
    \E i \in 1..Len(t) : \E j \in i..Len(t) :
        /\ AllDigits(t, i, j)
        /\ \/ HasAt(t, j + 1, "%")
           \/ /\ HasAt(t, j + 1, ".")
              /\ \E k \in (j + 2)..Len(t) :
                    AllDigits(t, j + 2, k) /\ HasAt(t, k + 1, "%")

\* \$?\d+[kKmM]? : the "$" and the suffix letter are optional
MoneyAlt(t) == \E i \in 1..Len(t) : \E j \in i..Len(t) : AllDigits(t, i, j)

TimeUnits == << <<"d","a","y">>, <<"w","e","e","k">>,
                <<"m","o","n","t","h">>, <<"h","o","u","r">> >>

\* \b\d+\b (days?|weeks?|months?|hours?) : the trailing "s" is optional
DurationAlt(t) ==
    \E i \in 1..Len(t) : \E j \in i..Len(t) :
        /\ AllDigits(t, i, j)
        /\ (i > 1 => ~IsWord(t[i - 1]))
        /\ (j < Len(t) => ~IsWord(t[j + 1]))
        /\ HasAt(t, j + 1, " ")
        /\ \E u \in 1..Len(TimeUnits) : WordAt(t, j + 2, TimeUnits[u])

\* _METRIC_RE.search(line)
MetricSearch(line) == PercentAlt(line) \/ MoneyAlt(line) \/ DurationAlt(line)

metric_lines(resume_lines) ==
    Cardinality({i \in 1..Len(resume_lines) : MetricSearch(resume_lines[i])})

\* evidence_score with an integer division in line 82
evidence_score_floor_division(resume_lines) ==
    IF resume_lines = <<>> THEN Zero
    ELSE Q(metric_lines(resume_lines) \div Len(resume_lines), 1)

\* evidence_score with no lines taken as every line carrying a metric
evidence_score_of_no_lines(resume_lines) ==
    IF resume_lines = <<>> THEN One
    ELSE QMin(One, Q(metric_lines(resume_lines), Len(resume_lines)))

\* lines 78-82
evidence_score(resume_lines) ==
    IF resume_lines = <<>> THEN Zero
    ELSE QMin(One, Q(metric_lines(resume_lines),
                     IF Len(resume_lines) > 1 THEN Len(resume_lines) ELSE 1))

(***************************************************************************)
(* embedding_similarity, after the model has produced the similarity       *)
(* matrix sim (one row per resume sentence, one column per JD sentence).   *)
(***************************************************************************)
SimVals == (-SimScale)..SimScale

SimMatrices(rows, cols) == [1..rows -> [1..cols -> SimVals]]

\* the sum of the k largest entries of one row:
\* np.partition(sim, -k, axis=1)[:, -k:] keeps the k largest of each row
RECURSIVE TopKSum(_, _, _)
TopKSum(row, idx, k) ==
    IF k = 0 THEN 0
    ELSE LET m == CHOOSE i \in idx : \A j \in idx : row[j] <= row[i]
         IN  row[m] + TopKSum(row, idx \ {m}, k - 1)

RECURSIVE RowsSum(_, _, _)
RowsSum(sim, r, k) ==
    IF r = 0 THEN 0
    ELSE TopKSum(sim[r], DOMAIN sim[r], k) + RowsSum(sim, r - 1, k)

\* topk_score with the mean taken over every column of sim
topk_score_all_columns(sim) ==
    LET cols == Len(sim[1])
        mean == Q(RowsSum(sim, Len(sim), cols), Len(sim) * cols * SimScale)
    IN  Q(mean[1] + mean[2], 2 * mean[2])

\* topk_score without the rescaling of line 33
topk_score_unscaled(sim) ==
    LET cols == Len(sim[1])
        k == IF cols < 3 THEN cols ELSE 3
    IN  Q(RowsSum(sim, Len(sim), k), Len(sim) * k * SimScale)

\* lines 30-33: k = min(3, sim.shape[1]); (topk.mean() + 1) / 2
topk_score(sim) ==
    LET cols == Len(sim[1])
        k == IF cols < 3 THEN cols ELSE 3
        mean == Q(RowsSum(sim, Len(sim), k), Len(sim) * k * SimScale)
    IN  Q(mean[1] + mean[2], 2 * mean[2])

\* lines 23-33, for rows resume sentences and cols JD sentences whose
\* similarity matrix is sim
embedding_similarity(rows, cols, sim) ==
    IF rows = 0 \/ cols = 0 THEN Zero ELSE topk_score(sim)

(***************************************************************************)
(* compute_score, lines 91-108: everything after the embedding score.      *)
(***************************************************************************)
\* line 95 with the weights of coverage and keyword alignment swapped
weighted_total_swapped(emb, cov, verbs, evid) ==
    QAdd(QAdd(QScale(40, emb), QScale(15, cov)),
         QAdd(QScale(30, verbs), QScale(15, evid)))

\* line 95
weighted_total(emb, cov, verbs, evid) ==
    QAdd(QAdd(QScale(40, emb), QScale(30, cov)),
         QAdd(QScale(15, verbs), QScale(15, evid)))

\* line 96, in tenths
clamped_total(total) == Max(0, Min(1000, round1(total)))

\* round(100 * x, 1), in tenths
percent1(x) == round1(QScale(100, x))

missing_skills(missing) ==
    [i \in 1..Len(missing) |-> [term |-> missing[i][1], importance |-> missing[i][2]]]

NoReport == [raised |-> "", returned |-> FALSE]

\* lines 91-93: the three scores that do not need the model
other_scores(resume_text, jd_text, resume_chunks, ontology_path) ==
    [loaded |-> load_ontology(ontology_path).raised,
     sc |-> skills_coverage(resume_text, jd_text, load_ontology(ontology_path).value),
     verbs |-> keyword_alignment(resume_text, jd_text, NoVerbs),
     evid |-> evidence_score(resume_chunks)]

\* lines 95-108, or the exception of line 91
build_report(emb, o) ==
    IF o.loaded # "" THEN [raised |-> o.loaded, returned |-> FALSE]
    ELSE IF o.sc.raised # "" THEN [raised |-> o.sc.raised, returned |-> FALSE]
    ELSE [raised |-> "", returned |-> TRUE,
          total_score |-> clamped_total(weighted_total(emb, o.sc.score, o.verbs, o.evid)),
          subscores |-> [embedding_similarity |-> percent1(emb),
                         skills_coverage |-> percent1(o.sc.score),
                         keyword_alignment |-> percent1(o.verbs),
                         evidence |-> percent1(o.evid)],
          aligned_skills |-> o.sc.aligned,
          missing_skills |-> missing_skills(o.sc.missing)]

(***************************************************************************)
(* Inputs: the texts, vocabularies and ontology resources the calls are    *)
(* made with.                                                              *)
(***************************************************************************)
T_javascript_developer ==
    <<"j","a","v","a","s","c","r","i","p","t"," ","d","e","v","e","l","o","p",
      "e","r">>
T_node_dot_js == <<"n","o","d","e",".","j","s">>
T_node_hyphen_js == <<"n","o","d","e","-","j","s">>
T_node_space_js == <<"n","o","d","e"," ","j","s">>
T_JAVA_dev == <<"S","e","n","i","o","r"," ","J","A","V","A"," ","d","e","v">>
V_java == <<"j","a","v","a">>
V_Java == <<"J","a","v","a">>
V_node_js == <<"n","o","d","e"," ","j","s">>
V_Node_JS == <<" ","N","o","d","e"," ","J","S"," ">>
V_js == <<"j","s">>
V_django == <<"d","j","a","n","g","o">>
V_ran == <<"r","a","n">>
V_led == <<"l","e","d">>
W_Python == <<"P","y","t","h","o","n">>
W_SQL == <<"S","Q","L">>
W_node == <<"n","o","d","e">>
W_js == <<"j","s">>
W_node_js == <<"n","o","d","e","-","j","s">>
W_built == <<"b","u","i","l","t">>
W_Led == <<"L","e","d">>
W_tested == <<"t","e","s","t","e","d">>
W_ran == <<"r","a","n">>
L_grew ==
    <<"G","r","e","w"," ","r","e","v","e","n","u","e"," ","b","y"," ","2","0",
      "%",".">>
L_led == <<"L","e","d"," ","a"," ","t","e","a","m",".">>
L_saved == <<"S","a","v","e","d"," ","$","5","k",".">>
L_took == <<"T","o","o","k"," ","3"," ","d","a","y","s",".">>
L_py3 == <<"K","n","o","w","s"," ","P","y","t","h","o","n","3",".">>
L_rate == <<"C","u","t"," ","1",".","5","%"," ","c","h","u","r","n",".">>
R_ws == <<" ","\n"," ">>
R_led == <<"L","e","d"," ","a"," ","t","e","a","m",".">>
R_two ==
    <<"G","r","e","w"," ","r","e","v","e","n","u","e"," ","b","y"," ","2","0",
      "%",".","\n","\n","L","e","d"," ","a"," ","t","e","a","m",".">>
R_e2e ==
    <<"B","u","i","l","t"," ","a"," ","d","a","t","a"," ","p","i","p","e","l",
      "i","n","e","."," ","R","e","d","u","c","e","d"," ","c","o","s","t"," ",
      "b","y"," ","1","5","%","."," ","S","k","i","l","l","e","d"," ","i","n",
      " ","P","y","t","h","o","n"," ","a","n","d"," ","S","Q","L",".">>
R_web ==
    <<"T","e","s","t","e","d"," ","n","o","d","e","-","j","s"," ","a","n","d",
      " ","j","a","v","a"," ","a","p","p","s","!"," "," ","K","n","o","w","s",
      " ","S","Q","L",".">>
R_four ==
    <<"L","e","d"," ","a"," ","t","e","a","m","."," ","B","u","i","l","t"," ",
      "a","p","p","s","."," ","K","n","o","w","s"," ","S","Q","L","."," ","C",
      "u","t"," ","1",".","5","%"," ","c","h","u","r","n",".">>
J_three ==
    <<"B","u","i","l","t",","," ","t","e","s","t","e","d"," ","a","n","d"," ",
      "d","e","p","l","o","y","e","d"," ","S","Q","L"," ","a","p","p","s",
      ".">>
J_led == <<"L","e","d"," ","2"," ","t","e","a","m","s",".">>
J_ws == <<"\t"," ">>
J_e2e ==
    <<"L","o","o","k","i","n","g"," ","f","o","r"," ","a"," ","P","y","t","h",
      "o","n"," ","a","n","d"," ","S","Q","L"," ","e","n","g","i","n","e","e",
      "r"," ","w","h","o"," ","h","a","s"," ","b","u","i","l","t"," ","d","a",
      "t","a"," ","p","i","p","e","l","i","n","e","s",".">>
J_py ==
    <<"P","y","t","h","o","n"," ","d","e","v","e","l","o","p","e","r","."," ",
      "L","e","d"," ","t","e","a","m","s",".">>
J_web ==
    <<"B","u","i","l","t"," ","n","o","d","e",".","j","s"," ","a","p","p","s",
      "?"," ","N","e","e","d","s"," ","j","a","v","a",","," ","S","Q","L",
      ".">>
K_languages == <<"l","a","n","g","u","a","g","e","s">>
K_web == <<"w","e","b">>
K_data == <<"d","a","t","a">>

\* ontology resources
O_langs == JsonFile(JObj(<<K_languages>>, <<JArr(<<JStr(W_Python), JStr(W_SQL)>>)>>))
O_two ==
    JsonFile(JObj(<<K_web, K_data>>,
                  <<JArr(<<JStr(V_node_js), JStr(V_java), JStr(V_js)>>),
                    JArr(<<JStr(W_SQL), JStr(V_java)>>)>>))
O_empty == JsonFile(JObj(<<>>, <<>>))
O_list == JsonFile(JArr(<<JStr(W_Python), JStr(W_SQL)>>))
O_bare == JsonFile(JObj(<<K_languages>>, <<JStr(W_SQL)>>))
O_nested ==
    JsonFile(JObj(<<K_languages>>, <<JObj(<<W_Python>>, <<JArr(<<JStr(V_django)>>)>>)>>))
O_num == JsonFile(JObj(<<K_languages>>, <<JNum>>))
O_mixed == JsonFile(JObj(<<K_languages>>, <<JArr(<<JStr(W_Python), JNum>>)>>))

\* the words of s joined by single spaces
RECURSIVE JoinWords(_)
JoinWords(ws) ==
    IF ws = <<>> THEN <<>>
    ELSE IF Len(ws) = 1 THEN ws[1]
    ELSE ws[1] \o <<" ">> \o JoinWords(Tail(ws))

\* the texts of at most n words of W
WordTexts(W, n) == {JoinWords(ws) : ws \in UNION {[1..k -> W] : k \in 0..n}}

\* inputs of compute_score when it is called once: every text pair with
\* two ontologies, and every ontology resource with a few text pairs
ScoreResumes == {None, <<>>, R_ws, R_led, R_two, R_e2e, R_web, R_four}
ScoreJDs == {None, J_ws, J_e2e, J_py, J_web, J_three, T_javascript_developer}
ScoreOntologies ==
    {MissingFile, NotJson, O_langs, O_two, O_empty, O_list, O_bare, O_nested,
     O_num, O_mixed}
ScoreInputs ==
    (ScoreResumes \X ScoreJDs \X {O_langs, O_two})
    \cup ({None, R_led, R_web} \X {None, J_web} \X ScoreOntologies)

\* inputs of compute_score when several threads call it
SharedInputs == { <<R_led, J_led, O_langs>>, <<None, J_led, O_langs>> }

\* inputs of the direct calls
TermAlphabet == {"a", "B", " ", "-", ".", "_"}
TermTexts ==
    UNION {[1..k -> TermAlphabet] : k \in 0..MaxTextLen}
    \cup {T_javascript_developer, T_node_dot_js, T_node_hyphen_js, T_node_space_js,
          T_JAVA_dev}
TermVocabs ==
    { <<>>,
      << <<"a">>, <<"a", " ", "b">>, <<"B">>, <<" ", "b", " ">>, <<"a", ".", "b">> >>,
      <<V_java, V_node_js, V_Java, V_Node_JS, V_js>> }

SkillTexts == WordTexts({W_Python, W_SQL, W_node, W_js, W_node_js}, MaxWords)
SkillOntologies == {O_langs, O_two, O_empty}

VerbTexts == WordTexts({W_built, W_Led, W_tested, W_ran}, MaxWords)
VerbLists == {NoVerbs, <<>>, <<V_ran, V_led>>}

EvidenceLines == {L_grew, L_led, L_saved, L_took, L_py3, L_rate}
EvidenceInputs == UNION {[1..k -> EvidenceLines] : k \in 0..MaxLines}

\* sentence counts and similarity matrices of embedding_similarity: the
\* extreme and the middle similarity in every cell
SimShapes ==
    {shape \in (0..MaxLines) \X (0..MaxJDSentences) : shape[1] * shape[2] <= MaxSimCells}
SimEnds == {-SimScale, 0, SimScale}
SimInputs(rows, cols) ==
    IF rows = 0 \/ cols = 0 THEN {<<>>} ELSE [1..rows -> [1..cols -> SimEnds]]

(***************************************************************************)
(* compute_score, run by a thread in steps.  The steps are the places      *)
(* where another thread can run in between: the test, the construction     *)
(* and the assignment of _get_model, and the encoding.  Everything else    *)
(* a call computes depends on its arguments alone, so it is tabulated per  *)
(* argument triple.                                                        *)
(***************************************************************************)
\* lines 85-88: clean_text and split_sentences of both texts
locals_of(args) ==
    [resume_text |-> clean_text(args[1]),
     jd_text |-> clean_text(args[2]),
     resume_chunks |-> split_sentences(clean_text(args[1])),
     jd_chunks |-> split_sentences(clean_text(args[2]))]

Locals == [args \in ScoreInputs \cup SharedInputs |-> locals_of(args)]

Scores ==
    [args \in ScoreInputs \cup SharedInputs |->
        other_scores(Locals[args].resume_text, Locals[args].jd_text,
                     Locals[args].resume_chunks, args[3])]

NoArgs == <<None, None, MissingFile>>

IdleFrame ==
    [args |-> NoArgs, resume_chunks |-> <<>>, jd_chunks |-> <<>>, model |-> 0,
     emb |-> Zero, cov |-> Zero, verbs |-> Zero, evid |-> Zero, report |-> NoReport]

Threads == 1..NumThreads

\* lines 84-88: the call, clean_text and split_sentences
Enter(t, args) ==
    /\ pc[t] = "idle"
    /\ frame' = [frame EXCEPT ![t] =
                    [IdleFrame EXCEPT !.args = args,
                                      !.resume_chunks = Locals[args].resume_chunks,
                                      !.jd_chunks = Locals[args].jd_chunks]]
    /\ pc' = [pc EXCEPT ![t] = "embedding_similarity"]
    /\ UNCHANGED <<MODEL, created, sim_score, call, ret>>

\* lines 24-25: no sentences on one side, so 0.0 and the model is not used
EmbEmpty(t) ==
    /\ pc[t] = "embedding_similarity"
    /\ frame[t].resume_chunks = <<>> \/ frame[t].jd_chunks = <<>>
    /\ frame' = [frame EXCEPT ![t].emb = Zero]
    /\ pc' = [pc EXCEPT ![t] = "skills_coverage"]
    /\ UNCHANGED <<MODEL, created, sim_score, call, ret>>

\* line 26: embedding_similarity calls _get_model
EmbGetModel(t) ==
    /\ pc[t] = "embedding_similarity"
    /\ frame[t].resume_chunks # <<>>
    /\ frame[t].jd_chunks # <<>>
    /\ pc' = [pc EXCEPT ![t] = "_get_model"]
    /\ UNCHANGED <<MODEL, created, frame, sim_score, call, ret>>

\* line 13: if _MODEL is None
GetModelTest(t) ==
    /\ pc[t] = "_get_model"
    /\ pc' = [pc EXCEPT ![t] = IF MODEL = 0 THEN "construct" ELSE "return_model"]
    /\ UNCHANGED <<MODEL, created, frame, sim_score, call, ret>>

\* line 14, right-hand side: SentenceTransformer(...) builds a new instance
GetModelConstruct(t) ==
    /\ pc[t] = "construct"
    /\ created' = created + 1
    /\ frame' = [frame EXCEPT ![t].model = created + 1]
    /\ pc' = [pc EXCEPT ![t] = "assign"]
    /\ UNCHANGED <<MODEL, sim_score, call, ret>>

\* line 14, the assignment to the global
GetModelAssign(t) ==
    /\ pc[t] = "assign"
    /\ MODEL' = frame[t].model
    /\ pc' = [pc EXCEPT ![t] = "return_model"]
    /\ UNCHANGED <<created, frame, sim_score, call, ret>>

\* line 15: return _MODEL reads the global again
GetModelReturn(t) ==
    /\ pc[t] = "return_model"
    /\ frame' = [frame EXCEPT ![t].model = MODEL]
    /\ pc' = [pc EXCEPT ![t] = "encode"]
    /\ UNCHANGED <<MODEL, created, sim_score, call, ret>>

\* model_answers of a model whose answers are not fixed: it may answer
\* sentences it has seen differently
model_answers_not_fixed(known, resume_chunks, jd_chunks) ==
    {topk_score(sim) : sim \in SimMatrices(Len(resume_chunks), Len(jd_chunks))}

\* the scores the model can answer for these sentences: the top-k score of
\* some similarity matrix with entries in [-1, 1]; the model is a fixed
\* function, so sentences it has seen get the answer they got before
model_answers(known, resume_chunks, jd_chunks) ==
    IF <<resume_chunks, jd_chunks>> \in DOMAIN known
    THEN {known[<<resume_chunks, jd_chunks>>]}
    ELSE {topk_score(sim) : sim \in SimMatrices(Len(resume_chunks), Len(jd_chunks))}

\* lines 27-33: encode, cos_sim, top-k; the local model goes out of scope
Encode(t) ==
    /\ pc[t] = "encode"
    /\ LET resume_chunks == frame[t].resume_chunks
           jd_chunks == frame[t].jd_chunks
       IN  \E e \in model_answers(sim_score, resume_chunks, jd_chunks) :
              /\ frame' = [frame EXCEPT ![t].emb = e, ![t].model = 0]
              /\ sim_score' = [k \in DOMAIN sim_score \cup {<<resume_chunks, jd_chunks>>} |->
                                  IF k \in DOMAIN sim_score THEN sim_score[k] ELSE e]
    /\ pc' = [pc EXCEPT ![t] = "skills_coverage"]
    /\ UNCHANGED <<MODEL, created, call, ret>>

\* lines 91-108: the other three scores and the report, or an exception
Score(t) ==
    /\ pc[t] = "skills_coverage"
    /\ \E o \in {Scores[frame[t].args]} :
          frame' = [frame EXCEPT ![t].cov = o.sc.score,
                                 ![t].verbs = o.verbs,
                                 ![t].evid = o.evid,
                                 ![t].report = build_report(frame[t].emb, o)]
    /\ pc' = [pc EXCEPT ![t] = "done"]
    /\ UNCHANGED <<MODEL, created, sim_score, call, ret>>

\* the caller has the report (or the exception); the thread may call again
Leave(t) ==
    /\ pc[t] = "done"
    /\ frame' = [frame EXCEPT ![t] = IdleFrame]
    /\ pc' = [pc EXCEPT ![t] = "idle"]
    /\ UNCHANGED <<MODEL, created, sim_score, call, ret>>

Step(t) ==
    \/ EmbEmpty(t)
    \/ EmbGetModel(t)
    \/ GetModelTest(t)
    \/ GetModelConstruct(t)
    \/ GetModelAssign(t)
    \/ GetModelReturn(t)
    \/ Encode(t)
    \/ Score(t)

NoCall == [fn |-> "none"]
NotReturned == [done |-> FALSE]

\* several threads of one process, calling again and again
Init ==
    /\ MODEL = 0
    /\ created = 0
    /\ pc = [t \in Threads |-> "idle"]
    /\ frame = [t \in Threads |-> IdleFrame]
    /\ sim_score = <<>>
    /\ call = NoCall
    /\ ret = NotReturned

EnterShared(t) == pc[t] = "idle" /\ \E args \in SharedInputs : Enter(t, args)

Next == \E t \in Threads : EnterShared(t) \/ Step(t) \/ Leave(t)

Spec == Init /\ [][Next]_vars

\* one call in a fresh process, with every input
InitScore ==
    /\ MODEL = 0
    /\ created = 0
    /\ pc = [t \in {1} |-> "idle"]
    /\ frame = [t \in {1} |-> IdleFrame]
    /\ sim_score = <<>>
    /\ call = NoCall
    /\ ret = NotReturned

EnterAny(t) == pc[t] = "idle" /\ \E args \in ScoreInputs : Enter(t, args)

NextScore == EnterAny(1) \/ Step(1)

SpecScore == InitScore /\ [][NextScore]_vars

(***************************************************************************)
(* The scoring functions called directly, each on every input of its       *)
(* bounded input set.                                                      *)
(***************************************************************************)
Returned(v) == [done |-> TRUE, value |-> v]

CallExtractTerms ==
    /\ call.fn = "extract_terms"
    /\ ~ret.done
    /\ ret' = Returned(extract_terms(call.text, call.vocab))
    /\ UNCHANGED <<MODEL, created, pc, frame, sim_score, call>>

CallSkillsCoverage ==
    /\ call.fn = "skills_coverage"
    /\ ~ret.done
    /\ ret' = Returned(skills_coverage(call.resume_text, call.jd_text, call.ontology))
    /\ UNCHANGED <<MODEL, created, pc, frame, sim_score, call>>

CallKeywordAlignment ==
    /\ call.fn = "keyword_alignment"
    /\ ~ret.done
    /\ ret' = Returned(keyword_alignment(call.resume_text, call.jd_text, call.verbs))
    /\ UNCHANGED <<MODEL, created, pc, frame, sim_score, call>>

CallEvidenceScore ==
    /\ call.fn = "evidence_score"
    /\ ~ret.done
    /\ ret' = Returned(evidence_score(call.resume_lines))
    /\ UNCHANGED <<MODEL, created, pc, frame, sim_score, call>>

CallEmbeddingSimilarity ==
    /\ call.fn = "embedding_similarity"
    /\ ~ret.done
    /\ ret' = Returned(embedding_similarity(call.rows, call.cols, call.sim))
    /\ UNCHANGED <<MODEL, created, pc, frame, sim_score, call>>

\* text with one more word at its end
WithWord(text, word) == IF text = <<>> THEN word ELSE text \o <<" ">> \o word

\* The caller puts one more term of the vocabulary, one the JD does not have
\* yet, at the end of the JD and calls skills_coverage again; the call
\* remembers the term and what the call before returned.
CallSkillsCoverageAgain ==
    /\ call.fn = "skills_coverage"
    /\ ret.done
    /\ call.added = None
    /\ \E term \in Range(skills_vocab(call.ontology)) :
          /\ term \notin Range(extract_terms(call.jd_text, skills_vocab(call.ontology)))
          /\ call' = [call EXCEPT !.jd_text = WithWord(@, term),
                                  !.added = term,
                                  !.before = [jd_text |-> call.jd_text,
                                              result |-> ret.value]]
          /\ ret' = Returned(skills_coverage(call.resume_text, WithWord(call.jd_text, term),
                                             call.ontology))
    /\ UNCHANGED <<MODEL, created, pc, frame, sim_score>>

NoResult == [raised |-> "none", score |-> Zero, aligned |-> <<>>, missing |-> <<>>]

InitPure ==
    /\ MODEL = 0
    /\ created = 0
    /\ pc = <<>>
    /\ frame = <<>>
    /\ sim_score = <<>>
    /\ ret = NotReturned
    /\ \/ \E text \in TermTexts, vocab \in TermVocabs :
             call = [fn |-> "extract_terms", text |-> text, vocab |-> vocab]
       \/ \E resume_text \in SkillTexts, jd_text \in SkillTexts,
             ontology \in SkillOntologies :
             call = [fn |-> "skills_coverage", resume_text |-> resume_text,
                     jd_text |-> jd_text, ontology |-> ontology.value,
                     added |-> None,
                     before |-> [jd_text |-> jd_text, result |-> NoResult]]
       \/ \E resume_text \in VerbTexts, jd_text \in VerbTexts, verbs \in VerbLists :
             call = [fn |-> "keyword_alignment", resume_text |-> resume_text,
                     jd_text |-> jd_text, verbs |-> verbs]
       \/ \E resume_lines \in EvidenceInputs :
             call = [fn |-> "evidence_score", resume_lines |-> resume_lines]
       \/ \E shape \in SimShapes : \E sim \in SimInputs(shape[1], shape[2]) :
             call = [fn |-> "embedding_similarity", rows |-> shape[1],
                     cols |-> shape[2], sim |-> sim]

NextPure ==
    \/ CallExtractTerms
    \/ CallSkillsCoverage
    \/ CallSkillsCoverageAgain
    \/ CallKeywordAlignment
    \/ CallEvidenceScore
    \/ CallEmbeddingSimilarity

SpecPure == InitPure /\ [][NextPure]_vars

(***************************************************************************)
(* Properties.                                                             *)
(***************************************************************************)
\* the ontology resource has the documented shape: a JSON object whose
\* values are arrays of strings
WellFormed(path) ==
    /\ path.kind = "json"
    /\ path.value.t = "obj"
    /\ \A i \in 1..Len(path.value.items) :
          /\ path.value.items[i].t = "arr"
          /\ \A k \in 1..Len(path.value.items[i].items) :
                path.value.items[i].items[k].t = "str"

\* thread t has a report in hand
HasReport(t) == pc[t] = "done" /\ frame[t].report.returned

InPercent(x) == x \in 0..1000

\* C1: every report has its total score and its four subscores between 0
\* and 100 (0 and 1000 tenths).
C1_Bounds ==
    \A t \in DOMAIN pc :
        HasReport(t) =>
            /\ InPercent(frame[t].report.total_score)
            /\ InPercent(frame[t].report.subscores.embedding_similarity)
            /\ InPercent(frame[t].report.subscores.skills_coverage)
            /\ InPercent(frame[t].report.subscores.keyword_alignment)
            /\ InPercent(frame[t].report.subscores.evidence)

\* a report for a well-formed ontology whose similarity and coverage
\* subscores are both at the upper bound
C1_Witness ==
    \E t \in DOMAIN pc :
        /\ HasReport(t)
        /\ WellFormed(frame[t].args[3])
        /\ frame[t].report.subscores.embedding_similarity = 1000
        /\ frame[t].report.subscores.skills_coverage = 1000
        /\ frame[t].report.total_score > 0

\* C2: the model handle is created at most once, and once _MODEL is set it
\* is never replaced by another instance.
C2_CreatedOnce == [][created' <= 1 /\ (MODEL # 0 => MODEL' = MODEL)]_vars

\* r tenths is x rounded to one decimal: the nearest tenth, the even one of
\* the two when x lies halfway between two tenths
IsRounded(r, x) ==
    /\ 2 * Abs(10 * x[1] - r * x[2]) <= x[2]
    /\ (2 * Abs(10 * x[1] - r * x[2]) = x[2] => r % 2 = 0)

\* 40*e + 30*c + 15*k + 15*v clamped to [0, 100], as a fraction
ClampedSum(e, c, k, v) ==
    LET n == 40 * e[1] * c[2] * k[2] * v[2] + 30 * c[1] * e[2] * k[2] * v[2]
             + 15 * k[1] * e[2] * c[2] * v[2] + 15 * v[1] * e[2] * c[2] * k[2]
        d == e[2] * c[2] * k[2] * v[2]
    IN  IF n < 0 THEN <<0, 1>> ELSE IF n > 100 * d THEN <<100, 1>> ELSE <<n, d>>

\* C3: the total is 40*emb + 30*cov + 15*kw + 15*evid of the unrounded
\* sub-scores, clamped to [0, 100] and rounded to one decimal, and every
\* subscore is 100 times its [0, 1] value rounded to one decimal.
C3_Total ==
    \A t \in DOMAIN pc :
        HasReport(t) =>
            LET e == frame[t].emb
                c == frame[t].cov
                k == frame[t].verbs
                v == frame[t].evid
                r == frame[t].report
            IN  /\ IsRounded(r.total_score, ClampedSum(e, c, k, v))
                /\ IsRounded(r.subscores.embedding_similarity, <<100 * e[1], e[2]>>)
                /\ IsRounded(r.subscores.skills_coverage, <<100 * c[1], c[2]>>)
                /\ IsRounded(r.subscores.keyword_alignment, <<100 * k[1], k[2]>>)
                /\ IsRounded(r.subscores.evidence, <<100 * v[1], v[2]>>)

\* a report whose total is not what the rounded subscores of the same
\* report would give
C3_Witness ==
    \E t \in DOMAIN pc :
        /\ HasReport(t)
        /\ LET r == frame[t].report
           IN  ~IsRounded(r.total_score,
                          <<40 * r.subscores.embedding_similarity
                            + 30 * r.subscores.skills_coverage
                            + 15 * r.subscores.keyword_alignment
                            + 15 * r.subscores.evidence, 1000>>)

\* a direct call of fn has returned
Called(fn) == call.fn = fn /\ ret.done

\* the list s is in strictly ascending order
IsSorted(s) == \A i \in 1..(Len(s) - 1) : StrLess(s[i], s[i + 1])

\* the ontology terms found in the JD and in the resume of the call
JDTerms == Range(extract_terms(call.jd_text, skills_vocab(call.ontology)))
ResumeTerms == Range(extract_terms(call.resume_text, skills_vocab(call.ontology)))

MissingTerms(missing) == {missing[i][1] : i \in 1..Len(missing)}

\* C4: when the JD has an ontology term, the score is |JD terms /\ resume
\* terms| / |JD terms|, aligned is the sorted intersection, missing is the
\* sorted JD terms the resume lacks, each with importance 1.0; aligned and
\* missing are disjoint and together are the JD terms.
C4_Coverage ==
    (Called("skills_coverage") /\ JDTerms # {}) =>
        LET v == ret.value
        IN  /\ v.raised = ""
            /\ v.score[1] * Cardinality(JDTerms)
                   = v.score[2] * Cardinality(JDTerms \cap ResumeTerms)
            /\ IsSorted(v.aligned)
            /\ Range(v.aligned) = JDTerms \cap ResumeTerms
            /\ IsSorted([i \in 1..Len(v.missing) |-> v.missing[i][1]])
            /\ MissingTerms(v.missing) = JDTerms \ ResumeTerms
            /\ \A i \in 1..Len(v.missing) : v.missing[i][2] = One
            /\ Range(v.aligned) \cap MissingTerms(v.missing) = {}
            /\ Range(v.aligned) \cup MissingTerms(v.missing) = JDTerms

\* a call where the JD has a matched and an unmatched term and the resume
\* has a term the JD lacks
C4_Witness ==
    /\ Called("skills_coverage")
    /\ JDTerms \cap ResumeTerms # {}
    /\ JDTerms \ ResumeTerms # {}
    /\ ResumeTerms \ JDTerms # {}
    /\ ret.value.score = Q(1, 2)

\* the tracked verbs found in the JD and in the resume of the call
JDVerbs == Range(extract_terms(call.jd_text, verbs_or_default(call.verbs)))
ResumeVerbs == Range(extract_terms(call.resume_text, verbs_or_default(call.verbs)))

\* C5: when no ontology term occurs in the JD, skills_coverage returns 0.0,
\* the resume's own terms in sorted order and no missing terms, without
\* raising; when no tracked verb occurs in the JD, keyword_alignment
\* returns 0.0.
C5_Fallback ==
    /\ (Called("skills_coverage") /\ JDTerms = {}) =>
           /\ ret.value.raised = ""
           /\ ret.value.score = Zero
           /\ IsSorted(ret.value.aligned)
           /\ Range(ret.value.aligned) = ResumeTerms
           /\ ret.value.missing = <<>>
    /\ (Called("keyword_alignment") /\ JDVerbs = {}) => ret.value = Zero

\* a call where the JD has no ontology term and the resume has two
C5_Witness ==
    /\ Called("skills_coverage")
    /\ JDTerms = {}
    /\ Cardinality(ResumeTerms) >= 2
    /\ Len(ret.value.aligned) >= 2

\* position i of t is outside t or holds neither a word character nor "-"
BoundaryAt(t, i) == i < 1 \/ i > Len(t) \/ ~(IsWord(t[i]) \/ t[i] = "-")

\* piece spells term, where a space of the term may be any of seps in piece
Spells(term, piece, seps) ==
    /\ Len(piece) = Len(term)
    /\ \A k \in 1..Len(term) :
          piece[k] = term[k] \/ (term[k] = " " /\ piece[k] \in seps)

\* term occurs in text at word boundaries, case ignored, with its spaces
\* spelled as any of seps
OccursIn(term, text, seps) ==
    LET term_l == Strip(Lower(term))
        t == Lower(text)
    IN  \E i \in 1..(Len(t) + 1) :
           /\ i + Len(term_l) - 1 <= Len(t)
           /\ Spells(term_l, SubSeq(t, i, i + Len(term_l) - 1), seps)
           /\ BoundaryAt(t, i - 1)
           /\ BoundaryAt(t, i + Len(term_l))

\* result is vocab without the terms that do not occur in text
KeepsOccurring(result, vocab, text, seps) ==
    /\ \A i \in 1..Len(vocab) :
          (\E k \in 1..Len(result) : result[k] = vocab[i])
              <=> OccursIn(vocab[i], text, seps)
    /\ \A k \in 1..Len(result) : \E i \in 1..Len(vocab) : result[k] = vocab[i]
    /\ Len(result) = Cardinality({i \in 1..Len(vocab) : OccursIn(vocab[i], text, seps)})

\* C6 (as amended): extract_terms returns, in their original casing, the
\* vocabulary terms that occur in the text at word boundaries, case
\* ignored, where a space inside a term may be spelled as a space or a
\* hyphen, and only so: "java" is not found in "javascript developer",
\* "node js" is found in "node js" and "node-js" and not in "node.js".
C6_Boundaries ==
    Called("extract_terms") =>
        /\ KeepsOccurring(ret.value, call.vocab, call.text, {" ", "-"})
        /\ (call.text = T_javascript_developer => V_java \notin Range(ret.value))
        /\ (call.text \in {T_node_space_js, T_node_hyphen_js}
               /\ V_node_js \in Range(call.vocab)
               => V_node_js \in Range(ret.value))
        /\ (call.text = T_node_dot_js => V_node_js \notin Range(ret.value))
        /\ (call.text = T_JAVA_dev /\ V_Java \in Range(call.vocab)
               => {V_java, V_Java} \subseteq Range(ret.value))

\* "node.js" searched for "node js" and "js": only "js" is found
C6_Witness ==
    /\ Called("extract_terms")
    /\ call.text = T_node_dot_js
    /\ V_node_js \in Range(call.vocab)
    /\ V_node_js \notin Range(ret.value)
    /\ V_js \in Range(ret.value)

\* C6: "java" is not found in "javascript developer", "node js" is found in
\* both "node.js" and "node-js", matching ignores case and the terms found
\* keep the vocabulary's casing.
C6_Original ==
    Called("extract_terms") =>
        /\ (call.text = T_javascript_developer => V_java \notin Range(ret.value))
        /\ (call.text \in {T_node_dot_js, T_node_hyphen_js}
               /\ V_node_js \in Range(call.vocab)
               => V_node_js \in Range(ret.value))
        /\ (call.text = T_JAVA_dev /\ V_Java \in Range(call.vocab)
               => {V_java, V_Java} \subseteq Range(ret.value))

\* thread t has come to the end of its call
Done(t) == pc[t] = "done"

\* C7: with an ontology resource that is missing or is not a mapping from
\* category to a list of term strings, compute_score ends in an error and
\* returns no report.
C7_Malformed ==
    \A t \in DOMAIN pc :
        (Done(t) /\ ~WellFormed(frame[t].args[3])) => ~frame[t].report.returned

\* the text is empty, None or only whitespace
Blank(text) == text = None \/ \A i \in 1..Len(text) : IsSpace(text[i])

\* C8 (as amended): with an ontology of the documented shape, a call whose
\* resume or JD is blank returns a report whose embedding_similarity
\* subscore is 0.0; its evidence subscore is 0.0 when the resume is blank,
\* and is the resume's own evidence score when only the JD is blank.
C8_Blank ==
    \A t \in DOMAIN pc :
        (/\ Done(t)
         /\ WellFormed(frame[t].args[3])
         /\ Blank(frame[t].args[1]) \/ Blank(frame[t].args[2])) =>
            /\ frame[t].report.returned
            /\ frame[t].report.subscores.embedding_similarity = 0
            /\ (Blank(frame[t].args[1]) => frame[t].report.subscores.evidence = 0)
            /\ IsRounded(frame[t].report.subscores.evidence,
                         <<100 * metric_lines(frame[t].resume_chunks),
                           Max(1, Len(frame[t].resume_chunks))>>)

\* a report for a blank resume and a JD with sentences
C8_Witness ==
    \E t \in DOMAIN pc :
        /\ HasReport(t)
        /\ WellFormed(frame[t].args[3])
        /\ Blank(frame[t].args[1])
        /\ frame[t].args[1] # None
        /\ frame[t].args[1] # <<>>
        /\ frame[t].jd_chunks # <<>>
        /\ frame[t].report.subscores.evidence = 0

\* C8: with a blank resume or a blank JD the call completes without error
\* and the report has embedding_similarity 0.0 and evidence 0.0.
C8_Original ==
    \A t \in DOMAIN pc :
        (/\ Done(t)
         /\ WellFormed(frame[t].args[3])
         /\ Blank(frame[t].args[1]) \/ Blank(frame[t].args[2])) =>
            /\ frame[t].report.returned
            /\ frame[t].report.subscores.embedding_similarity = 0
            /\ frame[t].report.subscores.evidence = 0

\* the lines of the call that match the metric pattern
MetricLines == {i \in 1..Len(call.resume_lines) : MetricSearch(call.resume_lines[i])}

\* C9: evidence_score is the number of lines matching the metric pattern
\* over the number of lines, never above 1.0, 0.0 for no lines, and 0.5
\* for the lines "Grew revenue by 20%." and "Led a team.".
C9_Evidence ==
    Called("evidence_score") =>
        /\ ret.value[1] * Len(call.resume_lines) = ret.value[2] * Cardinality(MetricLines)
        /\ ret.value[2] > 0
        /\ QLe(ret.value, One)
        /\ QLe(Zero, ret.value)
        /\ (call.resume_lines = <<>> => ret.value = Zero)
        /\ (call.resume_lines = <<L_grew, L_led>> => ret.value = Q(1, 2))

\* the two lines of the example, one with a metric, have been scored
C9_Witness ==
    /\ Called("evidence_score")
    /\ call.resume_lines = <<L_grew, L_led>>
    /\ Cardinality(MetricLines) = 1
    /\ ret.value = Q(1, 2)

\* the ontology terms found in the JD of the call before
JDTermsBefore ==
    Range(extract_terms(call.before.jd_text, skills_vocab(call.ontology)))

\* the call was made again with one more term in the JD: the term is in
\* the resume, and it is the only term the JD has gained
AddedOneTerm ==
    /\ Called("skills_coverage")
    /\ call.added # None
    /\ call.added \in ResumeTerms
    /\ JDTerms = JDTermsBefore \cup {call.added}

RECURSIVE SumOver(_, _)
SumOver(row, S) ==
    IF S = {} THEN 0
    ELSE LET j == CHOOSE j \in S : TRUE
         IN  row[j] + SumOver(row, S \ {j})

\* the largest sum that k entries of row, at k different columns, can have
BestSum(row, k) ==
    LET sums == {SumOver(row, S) : S \in {S \in SUBSET DOMAIN row : Cardinality(S) = k}}
    IN  CHOOSE b \in sums : \A x \in sums : x <= b

\* BestSum of every row of sim, added up
RECURSIVE BestSums(_, _, _)
BestSums(sim, r, k) ==
    IF r = 0 THEN 0 ELSE BestSum(sim[r], k) + BestSums(sim, r - 1, k)

\* C12: for sentences on both sides, embedding_similarity is (v + 1) / 2
\* where v is the mean, over all resume sentences, of each one's k largest
\* similarities, k = min(3, number of JD sentences); equal similarities
\* each count, and with fewer than 3 JD sentences all of them are used.
C12_TopK ==
    (Called("embedding_similarity") /\ call.rows > 0 /\ call.cols > 0) =>
        LET k == Min(3, call.cols)
            n == call.rows * k * SimScale
            total == BestSums(call.sim, call.rows, k)
            all == BestSums(call.sim, call.rows, call.cols)
        IN  /\ ret.value[1] * 2 * n = ret.value[2] * (total + n)
            /\ (call.cols < 3 =>
                   ret.value[1] * 2 * n = ret.value[2] * (all + n))

\* two resume sentences against four JD sentences; one row has its largest
\* similarity twice and a smallest one that is left out
C12_Witness ==
    /\ Called("embedding_similarity")
    /\ call.rows = 2
    /\ call.cols = 4
    /\ \E r \in 1..2 :
          /\ Cardinality({j \in 1..4 : call.sim[r][j] = SimScale}) = 2
          /\ Cardinality({j \in 1..4 : call.sim[r][j] = 0}) = 1
          /\ Cardinality({j \in 1..4 : call.sim[r][j] = -SimScale}) = 1
    /\ QLess(Q(1, 2), ret.value)

\* the verbs a call is to track: the caller's list when it supplied one,
\* the default list when it supplied none
TrackedVerbs == IF call.verbs = NoVerbs THEN DEFAULT_VERBS ELSE call.verbs

\* C13: keyword_alignment tracks the caller's verb list whenever one is
\* supplied, an empty list included, and the default list only when none
\* is supplied; it returns |resume verbs /\ JD verbs| / |JD verbs| when the
\* JD has a tracked verb, and 0.0 when it has none.
C13_Verbs ==
    Called("keyword_alignment") =>
        LET r == Range(extract_terms(call.resume_text, TrackedVerbs))
            j == Range(extract_terms(call.jd_text, TrackedVerbs))
        IN  /\ (j # {} =>
                   ret.value[1] * Cardinality(j) = ret.value[2] * Cardinality(r \cap j))
            /\ (j = {} => ret.value = Zero)

=============================================================================
